---- MODULE Spec2Model ----
(***************************************************************************)
(* The two benchmark notebooks of cuML/ (linear_regression.ipynb and       *)
(* classification.ipynb) as a statement-by-statement interpreter.          *)
(*                                                                         *)
(* A run executes the code cells of one notebook from top to bottom in one *)
(* kernel.  The state is the kernel's namespace (which library every       *)
(* imported name is bound to, what kind of value every variable holds),    *)
(* the wall clock, the files written by joblib.dump, and the history of    *)
(* the calls that were made.  A statement that raises ends the run: the    *)
(* notebooks contain no try/except.                                        *)
(***************************************************************************)
EXTENDS Integers, Sequences, FiniteSets

\* Largest amount the wall clock advances between two statements that read it.
MaxTick == 2

----------------------------------------------------------------------------
(* Statements *)

NoArgs == << >>

\* a variable passed as it is / passed through cupy.asnumpy
V(x) == [var |-> x, conv |-> "none"]
N(x) == [var |-> x, conv |-> "asnumpy"]

Stmt(c, l, k, f, r, lb, t, a, p, n) ==
    [cell |-> c, line |-> l, kind |-> k, fn |-> f, recv |-> r, lib |-> lb,
     targets |-> t, args |-> a, path |-> p, lit |-> n]

\* import <name> / from <lib> import <name>
Imp(c, l, name, lb)       == Stmt(c, l, "import", name, "", lb, << >>, NoArgs, "", 0)
\* <var> = <integer literal>
Const(c, l, var, n)       == Stmt(c, l, "const", "", "", "", <<var>>, NoArgs, "", n)
\* <targets> = <imported name>(<args>)
Call(c, l, k, f, t, a)    == Stmt(c, l, k, f, "", "", t, a, "", 0)
\* <targets> = <receiver>.<method>(<args>)
Meth(c, l, k, r, t, a)    == Stmt(c, l, k, k, r, "", t, a, "", 0)
\* <targets> = <module>.metrics.<fn>(<args>)
Qual(c, l, k, lb, f, t, a) == Stmt(c, l, k, f, "", lb, t, a, "", 0)
\* <target> = time.time()
Clock(c, l, t)            == Stmt(c, l, "clock", "time", "", "", <<t>>, NoArgs, "", 0)
\* <target> = end_time - start_time
Elapsed(c, l, t)          == Stmt(c, l, "elapsed", "", "", "", <<t>>,
                                  <<V("end_time"), V("start_time")>>, "", 0)
\* print(... <args> ...)
Show(c, l, a)             == Stmt(c, l, "print", "", "", "", << >>, a, "", 0)
\* dump(<var>, '<path>')  /  <target> = load('<path>')
Dump(c, l, var, p)        == Stmt(c, l, "dump", "dump", "", "", << >>, <<V(var)>>, p, 0)
Load(c, l, t, p)          == Stmt(c, l, "load", "load", "", "", <<t>>, NoArgs, p, 0)

----------------------------------------------------------------------------
(* linear_regression.ipynb *)

RegImports ==
    << Imp(1, 46, "cuml", "cuml"),
       Imp(1, 47, "asnumpy", "cupy"),
       Imp(1, 48, "dump", "joblib"),
       Imp(1, 48, "load", "joblib"),
       Imp(2, 57, "make_regression", "cuml"),
       Imp(2, 58, "train_test_split", "cuml"),
       Imp(2, 59, "cuLR", "cuml"),
       Imp(2, 60, "r2_score", "sklearn") >>

RegData(c, l) ==
    << Const(c, l, "n_samples", 100000),
       Const(c, l + 1, "n_features", 256),
       Const(c, l + 2, "n_info", 70),
       Call(c, l + 4, "generate", "make_regression", <<"X_reg", "y_reg">>,
            <<V("n_samples"), V("n_features"), V("n_info")>>) >>

RegSplitTargets == <<"X_reg_train", "X_reg_test", "y_reg_train", "y_reg_test">>

RegCuTiming ==
    << Clock(3, 119, "start_time"),
       Meth(3, 120, "fit", "cuml_reg_model", <<"trained_LR">>,
            <<V("X_reg_train"), V("y_reg_train")>>),
       Clock(3, 121, "end_time"),
       Elapsed(3, 124, "cuml_training_time") >>

RegCuMLCell ==
    << Imp(3, 99, "time", "time") >>
    \o RegData(3, 101)
    \o << Show(3, 109, <<V("X_reg"), V("y_reg")>>),
          Call(3, 111, "split", "train_test_split", RegSplitTargets,
               <<V("X_reg"), V("y_reg")>>),
          Call(3, 115, "construct", "cuLR", <<"cuml_reg_model">>, NoArgs) >>
    \o RegCuTiming
    \o << Meth(3, 126, "predict", "trained_LR", <<"cu_preds">>, <<V("X_reg_test")>>),
          Qual(3, 128, "score", "cuml", "r2_score", <<"cu_r2">>,
               <<V("y_reg_test"), V("cu_preds")>>),
          Call(3, 129, "score", "r2_score", <<"sk_r2">>,
               <<N("y_reg_test"), N("cu_preds")>>),
          Show(3, 131, <<V("cu_r2")>>),
          Show(3, 132, <<V("sk_r2")>>),
          Show(3, 133, <<V("cuml_training_time")>>),
          Dump(3, 137, "trained_LR", "LR.model") >>

\* (mutant of RegSkTiming) the elapsed time is stored under the name the cuML
\* cell used
RegSkTimingCopyPaste ==
    << Clock(4, 185, "start_time"),
       Call(4, 187, "construct", "LinearRegression", <<"sk_reg_model">>, NoArgs),
       Meth(4, 188, "fit", "sk_reg_model", << >>,
            <<V("X_reg_train"), V("y_reg_train")>>),
       Clock(4, 190, "end_time"),
       Elapsed(4, 193, "cuml_training_time") >>

RegSkTiming ==
    << Clock(4, 185, "start_time"),
       Call(4, 187, "construct", "LinearRegression", <<"sk_reg_model">>, NoArgs),
       Meth(4, 188, "fit", "sk_reg_model", << >>,
            <<V("X_reg_train"), V("y_reg_train")>>),
       Clock(4, 190, "end_time"),
       Elapsed(4, 193, "sk_learning_time") >>

RegSkCell ==
    << Imp(4, 165, "train_test_split", "sklearn"),
       Imp(4, 166, "LinearRegression", "sklearn"),
       Imp(4, 167, "r2_score", "sklearn"),
       Imp(4, 168, "np", "numpy"),
       Imp(4, 169, "time", "time") >>
    \o RegData(4, 171)
    \o << Call(4, 180, "split", "train_test_split", RegSplitTargets,
               <<N("X_reg"), N("y_reg")>>) >>
    \o RegSkTiming
    \o << Meth(4, 196, "predict", "sk_reg_model", <<"sk_preds">>, <<V("X_reg_test")>>),
          Call(4, 199, "score", "r2_score", <<"sk_r2">>,
               <<V("y_reg_test"), V("sk_preds")>>),
          Show(4, 202, <<V("sk_r2")>>),
          Show(4, 203, <<V("sk_learning_time")>>) >>

RegressionNotebook == RegImports \o RegCuMLCell \o RegSkCell

----------------------------------------------------------------------------
(* classification.ipynb *)

ClsImports ==
    << Imp(1, 18, "cuml", "cuml"),
       Imp(1, 19, "asnumpy", "cupy"),
       Imp(1, 20, "dump", "joblib"),
       Imp(1, 20, "load", "joblib") >>

ClsParams(c, l) ==
    << Const(c, l, "n_samples", 100000),
       Const(c, l + 1, "n_features", 10),
       Const(c, l + 2, "n_classes", 2),
       Const(c, l + 5, "n_estimators", 25),
       Const(c, l + 6, "max_depth", 10) >>

ClsSplitTargets == <<"X_train", "X_test", "y_train", "y_test">>

ClsCuTiming ==
    << Clock(2, 74, "start_time"),
       Meth(2, 76, "fit", "model", <<"trained_RF">>, <<V("X_train"), V("y_train")>>),
       Clock(2, 78, "end_time"),
       Elapsed(2, 81, "cuml_training_time") >>

ClsCuMLCell ==
    << Imp(2, 47, "make_classification", "cuml"),
       Imp(2, 48, "train_test_split", "cuml"),
       Imp(2, 49, "cuRF", "cuml"),
       Imp(2, 50, "accuracy_score", "sklearn"),
       Imp(2, 51, "time", "time") >>
    \o ClsParams(2, 54)
    \o << Call(2, 63, "generate", "make_classification", <<"X", "y">>,
               <<V("n_classes"), V("n_features"), V("n_samples")>>),
          Call(2, 68, "split", "train_test_split", ClsSplitTargets, <<V("X"), V("y")>>),
          Call(2, 70, "construct", "cuRF", <<"model">>,
               <<V("max_depth"), V("n_estimators")>>) >>
    \o ClsCuTiming
    \o << Meth(2, 83, "predict", "model", <<"predictions">>, <<V("X_test")>>),
          Qual(2, 85, "score", "cuml", "accuracy_score", <<"cu_score">>,
               <<V("y_test"), V("predictions")>>),
          Call(2, 86, "score", "accuracy_score", <<"sk_score">>,
               <<N("y_test"), N("predictions")>>),
          Show(2, 88, <<V("cu_score")>>),
          Show(2, 89, <<V("sk_score")>>),
          Show(2, 90, <<V("cuml_training_time")>>),
          Dump(2, 93, "trained_RF", "RF.model"),
          Load(2, 96, "loaded_model", "RF.model") >>

ClsSkTiming ==
    << Clock(3, 143, "start_time"),
       Meth(3, 145, "fit", "sk_model", << >>, <<V("X_train"), V("y_train")>>),
       Clock(3, 147, "end_time"),
       Elapsed(3, 150, "sk_learning_time") >>

ClsSkCell ==
    << Imp(3, 114, "make_classification", "cuml"),
       Imp(3, 115, "train_test_split", "sklearn"),
       Imp(3, 116, "RandomForestClassifier", "sklearn"),
       Imp(3, 117, "accuracy_score", "sklearn"),
       Imp(3, 118, "time", "time") >>
    \o ClsParams(3, 121)
    \o << Call(3, 136, "split", "train_test_split", ClsSplitTargets, <<N("X"), N("y")>>),
          Call(3, 139, "construct", "RandomForestClassifier", <<"sk_model">>,
               <<V("n_estimators"), V("max_depth")>>) >>
    \o ClsSkTiming
    \o << Meth(3, 153, "predict", "sk_model", <<"predictions">>, <<V("X_test")>>),
          Call(3, 156, "score", "accuracy_score", <<"sk_score">>,
               <<V("y_test"), V("predictions")>>),
          Show(3, 159, <<V("sk_score")>>),
          Show(3, 160, <<V("sk_learning_time")>>) >>

ClassificationNotebook == ClsImports \o ClsCuMLCell \o ClsSkCell

Notebooks == {"regression", "classification"}

Program(n) == IF n = "regression" THEN RegressionNotebook ELSE ClassificationNotebook


----------------------------------------------------------------------------
(* The kernel *)

VARIABLES
    nb,      \* the notebook being run
    pc,      \* index of the next statement of Program(nb)
    status,  \* "running", "done" (ran to the end) or "error" (a statement raised)
    bind,    \* imported name -> the library it is bound to, or "unbound"
    rep,     \* variable -> kind of value it holds, or "unset"
    val,     \* variable -> its number (literals, clock readings, elapsed times)
    now,     \* the wall clock
    disk,    \* path -> kind of model stored there, or "none"
    log      \* the statements executed so far, in order

vars == <<nb, pc, status, bind, rep, val, now, disk, log>>

Range(s) == {s[i] : i \in DOMAIN s}

AllStmts == Range(RegressionNotebook) \cup Range(ClassificationNotebook)

ImportNames == {s.fn : s \in {t \in AllStmts : t.kind = "import"}}

VarNames ==
    UNION {Range(s.targets) : s \in AllStmts}
    \cup UNION {{a.var : a \in Range(s.args)} : s \in AllStmts}

Paths == {s.path : s \in AllStmts} \ {""}

Cur == Program(nb)[pc]

Running == status = "running"

LibraryCall(s) ==
    s.kind \in {"generate", "split", "construct", "fit", "predict", "score",
                "dump", "load"}

\* (mutant of ArgRep) asnumpy forgotten: the array is passed as it is
ArgRepNoConv(a) == rep[a.var]

\* cupy.asnumpy copies a device array to a host array (and leaves a host array
\* a host array); a variable passed without it keeps its representation.
ArgRep(a) == IF a.conv = "asnumpy" /\ rep[a.var] \in {"device", "host"}
             THEN "host" ELSE rep[a.var]

IsModel(r) == r \in {"cu_model", "sk_model"}

\* The library whose code a statement runs: the module named in a qualified
\* call, the class of the receiver of a method call, or the library the called
\* name is bound to by the latest import of that name.
LibOf(s) ==
    IF s.lib # "" THEN s.lib
    ELSE IF s.recv # "" THEN
        (IF rep[s.recv] = "cu_model" THEN "cuml"
         ELSE IF rep[s.recv] = "sk_model" THEN "sklearn" ELSE "none")
    ELSE IF s.fn # "" THEN bind[s.fn]
    ELSE "python"

\* NameError: a name is used before anything was assigned to it or imported
NameErr(s) ==
    \/ \E a \in Range(s.args) : rep[a.var] = "unset"
    \/ \E a \in Range(s.args) : a.conv = "asnumpy" /\ bind["asnumpy"] = "unbound"
    \/ s.recv # "" /\ rep[s.recv] = "unset"
    \/ s.kind # "import" /\ s.lib # "" /\ bind[s.lib] = "unbound"
    \/ s.kind # "import" /\ s.lib = "" /\ s.recv = "" /\ s.fn # ""
       /\ bind[s.fn] = "unbound"

\* TypeError / AttributeError: scikit-learn is handed a device array (cupy
\* refuses the implicit conversion to a host array), or fit / predict is
\* called on something that is no estimator
TypeErr(s) ==
    \/ LibOf(s) = "sklearn" /\ \E a \in Range(s.args) : ArgRep(a) = "device"
    \/ s.recv # "" /\ ~IsModel(rep[s.recv])
    \/ s.kind = "dump" /\ ~IsModel(ArgRep(s.args[1]))

\* FileNotFoundError: load of a path nothing was dumped to
IoErr(s) == s.kind = "load" /\ disk[s.path] = "none"

Fault(s) ==
    IF NameErr(s) THEN "name"
    ELSE IF TypeErr(s) THEN "type"
    ELSE IF IoErr(s) THEN "io"
    ELSE ""

\* The kind of value a statement that completes assigns to its targets.
ResultRep(s) ==
    CASE s.kind = "const"     -> "int"
      [] s.kind = "clock"     -> "float"
      [] s.kind = "elapsed"   -> "float"
      [] s.kind = "score"     -> "float"
      [] s.kind = "generate"  -> IF LibOf(s) = "cuml" THEN "device" ELSE "host"
      [] s.kind = "split"     -> IF LibOf(s) = "cuml" THEN ArgRep(s.args[1]) ELSE "host"
      [] s.kind = "construct" -> IF LibOf(s) = "cuml" THEN "cu_model" ELSE "sk_model"
      [] s.kind = "fit"       -> rep[s.recv]
      [] s.kind = "predict"   -> IF LibOf(s) = "cuml" THEN ArgRep(s.args[1]) ELSE "host"
      [] s.kind = "load"      -> disk[s.path]
      [] OTHER                -> "unset"

Entry(s, e) ==
    [cell |-> s.cell, line |-> s.line, kind |-> s.kind, lib |-> LibOf(s),
     targets |-> s.targets,
     argreps |-> [i \in DOMAIN s.args |-> ArgRep(s.args[i])],
     err |-> e]

Init ==
    /\ nb \in Notebooks
    /\ pc = 1
    /\ status = "running"
    /\ bind = [n \in ImportNames |-> "unbound"]
    /\ rep = [v \in VarNames |-> "unset"]
    /\ val = [v \in VarNames |-> 0]
    /\ now = 0
    /\ disk = [p \in Paths |-> "none"]
    /\ log = << >>

\* The statement completed: control moves to the next statement of the cell,
\* or of the next cell, or the run is over.
Advance(s) ==
    /\ pc' = pc + 1
    /\ status' = IF pc = Len(Program(nb)) THEN "done" ELSE "running"
    /\ log' = Append(log, Entry(s, ""))
    /\ nb' = nb

\* The targets of the statement are bound to its result.
Assign(s) ==
    rep' = [v \in VarNames |-> IF v \in Range(s.targets) THEN ResultRep(s) ELSE rep[v]]

\* (mutant of Propagate) the exception is caught and dropped, and the cell
\* goes on with its next statement
SwallowAndContinue(s, e) ==
    /\ pc' = pc + 1
    /\ status' = IF pc = Len(Program(nb)) THEN "done" ELSE "running"
    /\ log' = Append(log, Entry(s, e))
    /\ nb' = nb

\* The statement raised.  No cell has a try/except, so the exception leaves
\* the cell and the run stops there.
Propagate(s, e) ==
    /\ status' = "error"
    /\ pc' = pc
    /\ log' = Append(log, Entry(s, e))
    /\ nb' = nb

At(k) == Running /\ Cur.kind = k /\ Fault(Cur) = ""

ExecImport ==
    /\ At("import")
    /\ bind' = [bind EXCEPT ![Cur.fn] = Cur.lib]
    /\ Advance(Cur)
    /\ UNCHANGED <<rep, val, now, disk>>

ExecConst ==
    /\ At("const")
    /\ Assign(Cur)
    /\ val' = [val EXCEPT ![Cur.targets[1]] = Cur.lit]
    /\ Advance(Cur)
    /\ UNCHANGED <<bind, now, disk>>

ExecGenerate ==
    /\ At("generate")
    /\ Assign(Cur)
    /\ Advance(Cur)
    /\ UNCHANGED <<bind, val, now, disk>>

ExecSplit ==
    /\ At("split")
    /\ Assign(Cur)
    /\ Advance(Cur)
    /\ UNCHANGED <<bind, val, now, disk>>

ExecConstruct ==
    /\ At("construct")
    /\ Assign(Cur)
    /\ Advance(Cur)
    /\ UNCHANGED <<bind, val, now, disk>>

ExecClock ==
    /\ At("clock")
    /\ \E d \in 0..MaxTick :
         /\ now' = now + d
         /\ val' = [val EXCEPT ![Cur.targets[1]] = now + d]
    /\ Assign(Cur)
    /\ Advance(Cur)
    /\ UNCHANGED <<bind, disk>>

ExecFit ==
    /\ At("fit")
    /\ Assign(Cur)
    /\ Advance(Cur)
    /\ UNCHANGED <<bind, val, now, disk>>

ExecElapsed ==
    /\ At("elapsed")
    /\ Assign(Cur)
    /\ val' = [val EXCEPT ![Cur.targets[1]] = val["end_time"] - val["start_time"]]
    /\ Advance(Cur)
    /\ UNCHANGED <<bind, now, disk>>

ExecPredict ==
    /\ At("predict")
    /\ Assign(Cur)
    /\ Advance(Cur)
    /\ UNCHANGED <<bind, val, now, disk>>

ExecScore ==
    /\ At("score")
    /\ Assign(Cur)
    /\ Advance(Cur)
    /\ UNCHANGED <<bind, val, now, disk>>

ExecPrint ==
    /\ At("print")
    /\ Advance(Cur)
    /\ UNCHANGED <<bind, rep, val, now, disk>>

ExecDump ==
    /\ At("dump")
    /\ disk' = [disk EXCEPT ![Cur.path] = ArgRep(Cur.args[1])]
    /\ Advance(Cur)
    /\ UNCHANGED <<bind, rep, val, now>>

ExecLoad ==
    /\ At("load")
    /\ Assign(Cur)
    /\ Advance(Cur)
    /\ UNCHANGED <<bind, val, now, disk>>

\* A statement raises when it cannot run (Fault), and a call into a library
\* may raise on its own account (a training failure, an I/O error, resource
\* exhaustion).
ExecRaise ==
    /\ Running
    /\ \/ Fault(Cur) # "" /\ Propagate(Cur, Fault(Cur))
       \/ Fault(Cur) = "" /\ LibraryCall(Cur) /\ Propagate(Cur, "lib")
    /\ UNCHANGED <<bind, rep, val, now, disk>>

Next ==
    \/ ExecImport
    \/ ExecConst
    \/ ExecGenerate
    \/ ExecSplit
    \/ ExecConstruct
    \/ ExecClock
    \/ ExecFit
    \/ ExecElapsed
    \/ ExecPredict
    \/ ExecScore
    \/ ExecPrint
    \/ ExecDump
    \/ ExecLoad
    \/ ExecRaise

Spec == Init /\ [][Next]_vars


----------------------------------------------------------------------------
(* Properties *)

Failed(i) == log[i].err # ""

Calls(k) == {i \in DOMAIN log : log[i].kind = k}

\* how often a variable was assigned (in all cells / in cell c)
AssignCount(v) ==
    Cardinality({i \in DOMAIN log : ~Failed(i) /\ v \in Range(log[i].targets)})

AssignCountIn(v, c) ==
    Cardinality({i \in DOMAIN log :
                    ~Failed(i) /\ log[i].cell = c /\ v \in Range(log[i].targets)})

Cells == {s.cell : s \in AllStmts}

MetricVars ==
    {"cu_r2", "sk_r2", "cu_score", "sk_score", "cuml_training_time", "sk_learning_time"}

ReusedMetricVars == {"sk_r2", "sk_score"}

DatasetVars == {"X_reg", "y_reg", "X", "y"}

\* C6: a failure of fit, dump or load (of any statement) is surfaced and
\* neither retried nor swallowed: fit is called at most once per backend in a
\* run, and once a statement has raised the run is in error and no later
\* statement is executed, so no score, timing or persisted model follows it.
C6_FailureSurfacedNotRetried ==
    /\ \A lb \in {"cuml", "sklearn"} :
         Cardinality({i \in Calls("fit") : log[i].lib = lb}) <= 1
    /\ \A i \in DOMAIN log :
         Failed(i) => /\ status = "error"
                      /\ i = Len(log)
                      /\ \A j \in DOMAIN log :
                           j > i => log[j].kind \notin {"score", "elapsed", "clock", "dump"}

C6_Witness_FitFailedInSecondBackend ==
    /\ status = "error"
    /\ log # << >>
    /\ log[Len(log)].kind = "fit"
    /\ log[Len(log)].lib = "sklearn"
    /\ log[Len(log)].err = "lib"
    /\ \E i \in Calls("dump") : ~Failed(i)

\* C7: no statement fails on a conversion, no scikit-learn function ever
\* receives a device array, and every scoring call gets the true targets and
\* the predictions in one representation: device arrays for cuml.metrics, host
\* arrays for sklearn.metrics.
C7_ScoringInCommonRepresentation ==
    \A i \in DOMAIN log :
        /\ log[i].err # "type"
        /\ log[i].lib = "sklearn" =>
              \A k \in DOMAIN log[i].argreps : log[i].argreps[k] # "device"
        /\ (log[i].kind = "score" /\ ~Failed(i)) =>
              /\ Len(log[i].argreps) = 2
              /\ log[i].argreps[1] = log[i].argreps[2]
              /\ log[i].argreps[1] = IF log[i].lib = "cuml" THEN "device" ELSE "host"

C7_Witness_AllScoresComputed ==
    /\ status = "done"
    /\ \E i \in Calls("score") : log[i].lib = "cuml" /\ log[i].argreps[1] = "device"
    /\ \E i \in Calls("score") : log[i].lib = "sklearn" /\ log[i].cell = 3
    /\ \E i \in Calls("split") : log[i].lib = "sklearn" /\ log[i].argreps[1] = "host"

\* C8: the two clock readings of a cell have exactly one fit call between them
\* and nothing else (no generation, split, model construction, predict, score
\* or persistence), and a cell reads the clock no more than twice.
C8_TimerBracketsOnlyFit ==
    \A i, j \in Calls("clock") :
        (i < j /\ log[i].cell = log[j].cell) =>
            /\ log[i].targets = <<"start_time">>
            /\ log[j].targets = <<"end_time">>
            /\ j = i + 2
            /\ log[i + 1].kind = "fit"

\* C9 as claimed: no variable that holds a score or a training time is
\* assigned a second time in a top-to-bottom run.
C9_MetricVarsAssignedOnce ==
    \A v \in MetricVars : AssignCount(v) <= 1

\* C9 as amended: cu_r2, cu_score, cuml_training_time and sk_learning_time are
\* assigned at most once in a run; sk_r2 and sk_score are assigned at most
\* once in a cell, and at most twice in a run.
C9_MetricVarsAssignedOncePerCell ==
    \A v \in MetricVars :
        /\ \A c \in Cells : AssignCountIn(v, c) <= 1
        /\ v \notin ReusedMetricVars => AssignCount(v) <= 1
        /\ AssignCount(v) <= 2

C9_Witness_ScoreNameReused ==
    /\ status = "done"
    /\ AssignCount("sk_r2") = 2
    /\ AssignCount("cu_r2") = 1
    /\ AssignCount("cuml_training_time") = 1
    /\ AssignCount("sk_learning_time") = 1

\* C10: in a top-to-bottom run the generator is called once, and the feature
\* matrix and the target are assigned once.
C10_DatasetGeneratedOnce ==
    /\ Cardinality(Calls("generate")) <= 1
    /\ \A v \in DatasetVars : AssignCount(v) <= 1


====
